---- MODULE Spec2Model ----
(***************************************************************************)
(* Model of garmin.py: the upload ledger (.uploaded_files.json), the batch *)
(* orchestrator upload_all, the single-file path of __main__, and the      *)
(* directory watcher (NewFileEventHandler / monitor).                      *)
(*                                                                         *)
(* One directory is modelled.  A file name is a tuple of tokens            *)
(* <<stem, ".fit">> or <<stem, "_modified", ".fit">> or <<stem, ".txt">>,  *)
(* so that the glob and the suffix filter of upload_all are computed, not  *)
(* assumed.  A file's content is "ok" (decodable FIT) or "bad" (FitFile    *)
(* .from_file raises).                                                     *)
(***************************************************************************)
EXTENDS Integers, Sequences, FiniteSets, TLC

\* ---------------------------------------------------------------- bounds
NumStems == 2
MaxRuns == 2
MaxRecords == 2

\* ---------------------------------------------------------------- names
StemNames == <<"a", "b", "c", "d", "e">>
Stems == {StemNames[k] : k \in 1..NumStems}
FitName(s) == <<s, ".fit">>
ModifiedName(s) == <<s, "_modified", ".fit">>
PlainNames == {FitName(s) : s \in Stems}
ModifiedNames == {ModifiedName(StemNames[1])}
OtherNames == {<<StemNames[1], ".txt">>}
Names == PlainNames \cup ModifiedNames \cup OtherNames

Last(n) == n[Len(n)]
Range(q) == {q[k] : k \in 1..Len(q)}
Orderings(S) == {q \in [1..Cardinality(S) -> S] : Range(q) = S}

\* Contents a newly created file of that name can have.
ContentsOf(n) == IF n \in PlainNames THEN {"ok", "bad"}
                 ELSE IF n \in ModifiedNames THEN {"ok"} ELSE {"bad"}

\* ------------------------------------------------------- pure functions
\* dir.glob("*.fit", case_sensitive=False) and the watcher's patterns=["*.fit"]
GlobFit(n) == Last(n) \in {".fit", ".FIT"}

\* i.endswith("_modified.fit")
EndsWithModified(n) == Len(n) >= 2 /\ n[Len(n) - 1] = "_modified" /\ n[Len(n)] = ".fit"

\* The files of the directory that the glob returns, as a set.
ListingFirstOnly(fsys) ==
    LET all == {n \in DOMAIN fsys : fsys[n] # "absent" /\ GlobFit(n)}
    IN IF all = {} THEN {} ELSE {CHOOSE n \in all : TRUE}
Listing(fsys) == {n \in DOMAIN fsys : fsys[n] # "absent" /\ GlobFit(n)}

NotModified(n) == ~EndsWithModified(n)

\* lines 329-331: the two list comprehensions that filter the glob result.
CandidatesNoLedgerFilter(listing, uploaded) == SelectSeq(listing, NotModified)
Candidates(listing, uploaded) ==
    LET NotUploaded(n) == n \notin Range(uploaded)
    IN SelectSeq(SelectSeq(listing, NotModified), NotUploaded)

\* edit_fit: None when FitFile.from_file raises, else the output path.
edit_fit_ignores_decode_error(content) == "output"
edit_fit(content) == IF content = "bad" THEN "None" ELSE "output"

\* upload(), line 294: garth.client.upload is invoked only when not dryrun.
InvokesClientAlways(dry) == TRUE
InvokesClient(dry) == ~dry

\* upload(), lines 302-308: which outcomes of the client leave upload() as an
\* exception.  409 is logged and swallowed; every other failure is re-raised.
Responses == {"ok", "conflict", "error"}
RaisesOnConflict(resp) == resp \in {"conflict", "error"}
RaisesNever(resp) == FALSE
Raises(resp) == resp \notin {"ok", "conflict"}

\* edit_fit, lines 249-251: the built file is written to output only when
\* edit_fit's own dryrun argument is not set.
WritesOutput(out, dry) == out = "output" /\ ~dry

\* line 342: "if not preinitialize" guards the decode, the rewrite, the encode
\* and the upload of a candidate; the else branch (349-352) only logs.
ProcessesAlways(pre) == TRUE
Processes(pre) == ~pre

\* line 355: the final ledger write happens only when not dryrun.
FlushSkipped(dry) == FALSE
ShouldFlush(dry) == ~dry

\* ------------------------------------------------------- message rewrite
\* fit_tool's profile values behind the names used at lines 225-243:
\* Manufacturer.DEVELOPMENT, Manufacturer.GARMIN, Manufacturer.WAHOO_FITNESS
\* and GarminProduct.EDGE_830.
DEVELOPMENT == 255
GARMIN == 1
WAHOO_FITNESS == 32
EDGE_830 == 3122

\* The messages of a decoded file, by their class, with the attribution
\* fields that edit_fit reads and assigns.
Kinds == {"FileIdMessage", "DeviceInfoMessage", "RecordMessage"}
Manufacturers == {0, GARMIN, WAHOO_FITNESS, DEVELOPMENT, 260}
Products == {0, EDGE_830}
Messages == [kind : Kinds, manufacturer : Manufacturers, product : Products,
             garmin_product : Products]

\* line 225: the manufacturer for which a FileIdMessage is changed.
FileIdTriggersWithZero == {DEVELOPMENT, 0}
FileIdTriggers == {DEVELOPMENT}

\* lines 236-240: the manufacturers for which a DeviceInfoMessage is changed.
DeviceInfoTriggersWithGarmin == {DEVELOPMENT, 0, WAHOO_FITNESS, GARMIN}
DeviceInfoTriggers == {DEVELOPMENT, 0, WAHOO_FITNESS}

\* lines 220-229: the first if of the loop body.
RewriteFileId(m) ==
    IF m.kind = "FileIdMessage" /\ m.manufacturer \in FileIdTriggers
    THEN [m EXCEPT !.product = EDGE_830, !.manufacturer = GARMIN]
    ELSE m

\* lines 232-244: the second if of the loop body.
RewriteDeviceInfo(m) ==
    IF m.kind = "DeviceInfoMessage" /\ m.manufacturer \in DeviceInfoTriggers
    THEN [m EXCEPT !.garmin_product = EDGE_830, !.product = EDGE_830,
                   !.manufacturer = GARMIN]
    ELSE m

\* lines 217-244: what one iteration does to the record's message.
Rewrite(m) == RewriteDeviceInfo(RewriteFileId(m))

\* line 246: builder.add(message), for every record.
AddUnlessDeviceInfo(b, m) == IF m.kind = "DeviceInfoMessage" THEN b ELSE Append(b, m)
Add(b, m) == Append(b, m)

\* ---------------------------------------------------------------- state
VARIABLES
    fs,              \* the directory: name -> "absent" | "ok" | "bad"
    disk,            \* the ledger file .uploaded_files.json
    prog,            \* the running program: "none" | "cli" | "single" | "monitor"
                     \* | "editdir"
    pc,              \* position inside upload_all (or inside the single-file path)
    preinitialize,   \* upload_all's argument
    dryrun,          \* upload_all's / upload's dryrun argument
    files,           \* upload_all's local list of candidates
    i,               \* index of the candidate being processed
    uploaded_files,  \* upload_all's in-memory ledger list
    single_path,     \* __main__'s p when it is a single file
    handler_dryrun,  \* NewFileEventHandler.dryrun
    event_queue,     \* number of creation events queued for the handler
    hpc,             \* the observer's dispatch thread
    stop,            \* monitor received KeyboardInterrupt
    result,          \* how the latest upload_all invocation ended
    last,            \* what the latest per-file step did
    acked,           \* files whose upload (in upload_all) returned success or conflict
    failed,          \* the file whose upload last ended in a hard error, until
                     \* upload_all processes that file again without one
    onlyConflict,    \* every client answer of this invocation so far was Conflict
    marked,          \* files appended by an invocation with preinitialize
    dirty,           \* the directory changed since the latest glob
    runs,            \* number of program starts so far
    records,         \* edit_fit: fit_file.records, as their messages
    rec_i,           \* edit_fit: the position of the for loop over the records
    builder,         \* edit_fit: the messages added to the FitFileBuilder
    dt,              \* edit_fit: the activity timestamp, once a FileId was seen
    modified_file,   \* edit_fit: the result of builder.build()
    files_to_edit,   \* __main__: the list globbed by the edit-only branch
    edit_i           \* __main__: position of the for loop over files_to_edit

vars == <<fs, disk, prog, pc, preinitialize, dryrun, files, i, uploaded_files,
          single_path, handler_dryrun, event_queue, hpc, stop,
          result, last, acked, failed, onlyConflict, marked, dirty, runs,
          records, rec_i, builder, dt, modified_file, files_to_edit, edit_i>>

\* the locals of one upload_all frame
frame == <<preinitialize, dryrun, files, i, uploaded_files>>
\* the watcher
watcher == <<handler_dryrun, event_queue, hpc, stop>>
\* the history of the ledger's meaning
hist == <<acked, failed, onlyConflict, marked>>
\* the locals of one edit_fit frame, from the decode to builder.build()
editor == <<records, rec_i, builder, dt, modified_file>>
\* the locals of the edit-only branch of __main__
editdir == <<files_to_edit, edit_i>>

Absent == [exists |-> FALSE, complete |-> FALSE, paths |-> <<>>]
Truncated == [exists |-> TRUE, complete |-> FALSE, paths |-> <<>>]
Written(paths) == [exists |-> TRUE, complete |-> TRUE, paths |-> paths]

NoFile == <<>>
NoOp == [op |-> "none", file |-> NoFile, dry |-> FALSE, decoded |-> FALSE,
         encoded |-> FALSE, called |-> FALSE, invoked |-> FALSE, resp |-> "none"]
NoResult == [kind |-> "none", dry |-> FALSE, pre |-> FALSE, flushed |-> FALSE]
NotBuilt == [built |-> FALSE, records |-> <<>>]

Init ==
    /\ fs = [n \in Names |-> "absent"]
    /\ disk = Absent
    /\ prog = "none"
    /\ pc = "idle"
    /\ preinitialize = FALSE
    /\ dryrun = FALSE
    /\ files = <<>>
    /\ i = 0
    /\ uploaded_files = <<>>
    /\ single_path = NoFile
    /\ handler_dryrun = FALSE
    /\ event_queue = 0
    /\ hpc = "off"
    /\ stop = FALSE
    /\ result = NoResult
    /\ last = NoOp
    /\ acked = {}
    /\ failed = NoFile
    /\ onlyConflict = TRUE
    /\ dirty = FALSE
    /\ runs = 0
    /\ marked = {}
    /\ records = <<>>
    /\ rec_i = 0
    /\ builder = <<>>
    /\ dt = "None"
    /\ modified_file = NotBuilt
    /\ files_to_edit = <<>>
    /\ edit_i = 0

\* ------------------------------------------------------------ environment
\* The emitter thread queues a created file that matches patterns=["*.fit"]
\* while the observer runs.
Emits(n) == prog = "monitor" /\ ~stop /\ hpc # "dead" /\ GlobFit(n)

\* Another program (the activity recorder) creates a file in the directory.
CreateFile ==
    \E n \in Names : \E c \in ContentsOf(n) :
        /\ fs[n] = "absent"
        /\ fs' = [fs EXCEPT ![n] = c]
        /\ dirty' = TRUE
        /\ event_queue' = IF Emits(n) THEN event_queue + 1 ELSE event_queue
        /\ UNCHANGED <<disk, prog, pc, frame, single_path, handler_dryrun, hpc,
                       stop, result, last, hist, runs>>
        /\ UNCHANGED <<editor, editdir>>

\* ------------------------------------------------------------- upload_all
\* upload_all ends, by return or by an exception leaving it.  In the CLI the
\* program ends with it; in the watcher a return re-arms the dispatch thread
\* and an exception ends that thread.
Finish(kind, flushed) ==
    /\ pc' = "idle"
    /\ result' = [kind |-> kind, dry |-> dryrun, pre |-> preinitialize,
                  flushed |-> flushed]
    /\ prog' = IF prog = "cli" THEN "none" ELSE prog
    /\ hpc' = IF prog = "monitor"
              THEN (IF kind = "raised" THEN "dead" ELSE "armed")
              ELSE hpc

\* the call of upload_all(dir, pre, dry)
Call(pre, dry) ==
    /\ pc' = "load"
    /\ preinitialize' = pre
    /\ dryrun' = dry
    /\ files' = <<>>
    /\ i' = 0
    /\ uploaded_files' = <<>>
    /\ last' = NoOp
    /\ onlyConflict' = TRUE

\* lines 324-337: glob, filter, and the early return on an empty list.
Scan(uploaded) ==
    \E listing \in Orderings(Listing(fs)) :
        /\ files' = Candidates(listing, uploaded)
        /\ uploaded_files' = uploaded
        /\ dirty' = FALSE
        /\ IF files' = <<>>
           THEN Finish("returned", FALSE) /\ i' = 0
           ELSE pc' = "loop" /\ i' = 1 /\ UNCHANGED <<result, prog, hpc>>

\* __main__, line 583: upload_all(p, args.preinitialize, args.dryrun)
CliUploadAllWith(DryArgs) ==
    \E pre \in BOOLEAN, dry \in DryArgs :
        /\ prog = "none"
        /\ runs < MaxRuns
        /\ runs' = runs + 1
        /\ prog' = "cli"
        /\ Call(pre, dry)
        /\ UNCHANGED <<fs, disk, single_path, watcher, result, acked, failed, marked, dirty>>
        /\ UNCHANGED <<editor, editdir>>

CliUploadAll == CliUploadAllWith(BOOLEAN)

\* lines 312-316, ledger present: json.load, then the scan.
LoadLedger ==
    /\ pc = "load"
    /\ disk.exists
    /\ IF disk.complete
       THEN Scan(disk.paths)
       ELSE \* json.load raises JSONDecodeError on an empty or cut file
            /\ Finish("raised", FALSE)
            /\ UNCHANGED <<files, i, uploaded_files, dirty>>
    /\ UNCHANGED <<fs, disk, preinitialize, dryrun, single_path, handler_dryrun,
                   event_queue, stop, last, hist, runs>>
    /\ UNCHANGED <<editor, editdir>>

\* lines 317-319, ledger absent: open("w") creates the file, empty.
CreateLedgerOpen ==
    /\ pc = "load"
    /\ ~disk.exists
    /\ disk' = Truncated
    /\ pc' = "create"
    /\ UNCHANGED <<fs, prog, frame, single_path, watcher, result, last, hist,
                   dirty, runs>>
    /\ UNCHANGED <<editor, editdir>>

\* lines 320-321: json.dump([]) and close, then the scan.
CreateLedgerWrite ==
    /\ pc = "create"
    /\ disk' = Written(<<>>)
    /\ Scan(<<>>)
    /\ UNCHANGED <<fs, preinitialize, dryrun, single_path, handler_dryrun,
                   event_queue, stop, last, hist, runs>>
    /\ UNCHANGED <<editor, editdir>>

\* upload(fn, dryrun), lines 260-308: the outcomes it can have.  The session
\* is resumed or a login is made first (also under dryrun); fn is opened; the
\* client is invoked unless dryrun.
UploadOutcomes(fnExists, dry) ==
    {[invoked |-> FALSE, resp |-> "auth_error"]} \cup
    (IF ~fnExists THEN {[invoked |-> FALSE, resp |-> "file_not_found"]}
     ELSE IF InvokesClient(dry)
     THEN {[invoked |-> TRUE, resp |-> r] : r \in Responses}
     ELSE {[invoked |-> FALSE, resp |-> "skipped"]})

\* whether upload() is left by an exception
UploadRaises(o) ==
    \/ o.resp \in {"auth_error", "file_not_found"}
    \/ o.invoked /\ Raises(o.resp)

\* the upload ended in a failure other than Conflict
HardError(o) == o.resp \in {"error", "auth_error", "file_not_found"}

NotCalled == [invoked |-> FALSE, resp |-> "none"]

\* lines 339-353: one iteration of the for loop.  edit_fit is called without
\* dryrun, so it always writes the NamedTemporaryFile when the decode succeeds.
ProcessFile ==
    /\ pc = "loop"
    /\ LET f == files[i]
           out == IF Processes(preinitialize) THEN edit_fit(fs[f]) ELSE "None"
       IN \E o \in (IF out = "output" THEN UploadOutcomes(TRUE, dryrun)
                    ELSE {NotCalled}) :
            /\ last' = [op |-> "upload_all", file |-> f, dry |-> dryrun,
                        decoded |-> Processes(preinitialize),
                        \* line 344 passes no dryrun to edit_fit
                        encoded |-> WritesOutput(out, FALSE),
                        called |-> (out = "output"),
                        invoked |-> o.invoked, resp |-> o.resp]
            /\ onlyConflict' = (onlyConflict /\ (o.invoked => o.resp = "conflict")
                                /\ o.resp # "auth_error")
            /\ failed' = IF HardError(o) THEN f
                          ELSE IF failed = f THEN NoFile ELSE failed
            /\ acked' = IF o.invoked /\ o.resp \in {"ok", "conflict"}
                         THEN acked \cup {f} ELSE acked
            /\ marked' = IF Processes(preinitialize) THEN marked
                          ELSE marked \cup {f}
            /\ IF UploadRaises(o)
               THEN \* the exception leaves upload() and upload_all
                    /\ Finish("raised", FALSE)
                    /\ UNCHANGED <<uploaded_files, i>>
               ELSE /\ uploaded_files' = Append(uploaded_files, f)
                    /\ i' = i + 1
                    /\ pc' = IF i < Len(files) THEN "loop" ELSE "flush"
                    /\ UNCHANGED <<result, prog, hpc>>
    /\ UNCHANGED <<fs, disk, preinitialize, dryrun, files, single_path,
                   handler_dryrun, event_queue, stop, dirty, runs>>
    /\ UNCHANGED <<editor, editdir>>

\* line 355-356: "if not dryrun", then open("w") truncates the ledger file.
FlushOpen ==
    /\ pc = "flush"
    /\ IF ShouldFlush(dryrun)
       THEN disk' = Truncated /\ pc' = "dump" /\ UNCHANGED <<result, prog, hpc>>
       ELSE Finish("returned", FALSE) /\ UNCHANGED disk
    /\ UNCHANGED <<fs, frame, single_path, handler_dryrun, event_queue, stop,
                   last, hist, dirty, runs>>
    /\ UNCHANGED <<editor, editdir>>

\* line 357: json.dump writes the list, one element after the other.
FlushDump ==
    /\ pc = "dump"
    /\ Len(disk.paths) < Len(uploaded_files)
    /\ disk' = [disk EXCEPT !.paths = Append(@, uploaded_files[Len(@) + 1])]
    /\ UNCHANGED <<fs, prog, pc, frame, single_path, watcher, result, last,
                   hist, dirty, runs>>
    /\ UNCHANGED <<editor, editdir>>

\* line 356-357: leaving the with block closes the file; upload_all returns.
FlushClose ==
    /\ pc = "dump"
    /\ Len(disk.paths) = Len(uploaded_files)
    /\ disk' = [disk EXCEPT !.complete = TRUE]
    /\ Finish("returned", TRUE)
    /\ UNCHANGED <<fs, frame, single_path, handler_dryrun, event_queue, stop,
                   last, hist, dirty, runs>>
    /\ UNCHANGED <<editor, editdir>>

\* ------------------------------------------------------------ single file
\* fit_path.parent / f"{fit_path.stem}_modified.fit"
Stem(n) == SubSeq(n, 1, Len(n) - 1)
OutputOf(n) == Stem(n) \o <<"_modified", ".fit">>

\* __main__, lines 573-576: p is a file; edit_fit(p, dryrun=args.dryrun)
\* writes the default output next to p unless dryrun.
SingleEditWith(DryArgs) ==
    \E n \in Names, up \in BOOLEAN, dry \in DryArgs :
        /\ prog = "none"
        /\ runs < MaxRuns
        /\ fs[n] # "absent"
        /\ OutputOf(n) \in Names
        /\ runs' = runs + 1
        /\ dryrun' = dry
        /\ LET out == edit_fit(fs[n])
               writes == WritesOutput(out, dry)
           IN /\ fs' = IF writes THEN [fs EXCEPT ![OutputOf(n)] = "ok"] ELSE fs
              /\ dirty' = (dirty \/ (writes /\ fs[OutputOf(n)] = "absent"))
              /\ last' = [op |-> "single", file |-> n, dry |-> dry,
                          decoded |-> TRUE, encoded |-> writes,
                          called |-> FALSE, invoked |-> FALSE, resp |-> "none"]
              /\ IF up /\ out = "output"
                 THEN prog' = "single" /\ pc' = "single_upload" /\ single_path' = n
                 ELSE UNCHANGED <<prog, pc, single_path>>
        /\ UNCHANGED <<disk, preinitialize, files, i, uploaded_files, watcher,
                       result, hist>>
        /\ UNCHANGED <<editor, editdir>>

SingleEdit == SingleEditWith(BOOLEAN)

\* __main__, lines 577-578: upload(output_path, original_path=p, dryrun)
SingleUpload ==
    /\ pc = "single_upload"
    /\ \E o \in UploadOutcomes(fs[OutputOf(single_path)] # "absent", dryrun) :
        last' = [last EXCEPT !.called = TRUE, !.invoked = o.invoked,
                             !.resp = o.resp]
    /\ prog' = "none"
    /\ pc' = "idle"
    /\ single_path' = NoFile
    /\ UNCHANGED <<fs, disk, frame, watcher, result, hist, dirty, runs>>
    /\ UNCHANGED <<editor, editdir>>

\* ---------------------------------------------------------------- watcher
\* monitor(), lines 360-367: the handler is built and the observer started.
MonitorStartWith(DryArgs) ==
    \E dry \in DryArgs :
        /\ prog = "none"
        /\ runs < MaxRuns
        /\ runs' = runs + 1
        /\ prog' = "monitor"
        /\ handler_dryrun' = dry
        /\ event_queue' = 0
        /\ hpc' = "armed"
        /\ stop' = FALSE
        /\ UNCHANGED <<fs, disk, pc, frame, single_path, result, last, hist, dirty>>
        /\ UNCHANGED <<editor, editdir>>

MonitorStart == MonitorStartWith(BOOLEAN)

\* monitor(), lines 361-364: one Observer with one handler, and on_created
\* (93-104) sleeps and calls upload_all inline, so the observer's dispatch
\* thread takes the next event only after on_created has returned.
DispatcherFreeAlways(h) == TRUE
DispatcherFree(h) == h = "armed"

\* line 96: "if not self.dryrun" guards the sleep and the call of upload_all.
ActsAlways(dry) == TRUE
Acts(dry) == ~dry

\* on_created, lines 93-98 and 105-106: the dispatch thread takes the next
\* event; under dryrun it only logs, otherwise it starts time.sleep(5).
OnCreated ==
    /\ prog = "monitor"
    /\ DispatcherFree(hpc)
    /\ ~stop
    /\ event_queue > 0
    /\ event_queue' = event_queue - 1
    /\ hpc' = IF Acts(handler_dryrun) THEN "debouncing" ELSE "armed"
    /\ last' = [NoOp EXCEPT !.op = "on_created", !.dry = handler_dryrun]
    /\ UNCHANGED <<fs, disk, prog, pc, frame, single_path, handler_dryrun, stop,
                   result, hist, dirty, runs>>
    /\ UNCHANGED <<editor, editdir>>

\* on_created, lines 98-104: the sleep ends and upload_all(parent) is called
\* with preinitialize and dryrun at their defaults.
DebounceDone ==
    /\ hpc = "debouncing"
    /\ hpc' = "triggered"
    /\ Call(FALSE, FALSE)
    /\ UNCHANGED <<fs, disk, prog, single_path, handler_dryrun, event_queue,
                   stop, result, acked, failed, marked, dirty, runs>>
    /\ UNCHANGED <<editor, editdir>>

\* monitor(), lines 371-374: KeyboardInterrupt in the main thread, then
\* observer.stop(); the dispatch thread is not interrupted.
StopSignal ==
    /\ prog = "monitor"
    /\ ~stop
    /\ stop' = TRUE
    /\ UNCHANGED <<fs, disk, prog, pc, frame, single_path, handler_dryrun,
                   event_queue, hpc, result, last, hist, dirty, runs>>
    /\ UNCHANGED <<editor, editdir>>

\* monitor(), lines 369-375: the loop ends when the observer thread is no
\* longer alive, or after the interrupt once observer.join() returns.
MonitorExit ==
    /\ prog = "monitor"
    /\ hpc = "dead" \/ (stop /\ hpc = "armed")
    /\ prog' = "none"
    /\ hpc' = "off"
    /\ event_queue' = 0
    /\ UNCHANGED <<fs, disk, pc, frame, single_path, handler_dryrun, stop,
                   result, last, hist, dirty, runs>>
    /\ UNCHANGED <<editor, editdir>>

\* ------------------------------------------------------------------ crash
\* The process is killed (or the machine loses power) at any point.
Crash ==
    /\ prog # "none"
    /\ prog' = "none"
    /\ pc' = "idle"
    /\ hpc' = "off"
    /\ event_queue' = 0
    /\ single_path' = NoFile
    /\ result' = [kind |-> "crashed", dry |-> dryrun, pre |-> preinitialize,
                  flushed |-> FALSE]
    /\ UNCHANGED <<fs, disk, frame, handler_dryrun, stop, last, hist, dirty, runs>>
    /\ UNCHANGED <<editor, editdir>>

\* --------------------------------------------------------- specifications
\* The command-line programs: upload_all on the directory, and a single file.
Next ==
    \/ CreateFile
    \/ CliUploadAll
    \/ LoadLedger
    \/ CreateLedgerOpen
    \/ CreateLedgerWrite
    \/ ProcessFile
    \/ FlushOpen
    \/ FlushDump
    \/ FlushClose
    \/ SingleEdit
    \/ SingleUpload

Spec == Init /\ [][Next]_vars

\* The same programs, where the process can be killed at any point.
NextCrash == Next \/ Crash

SpecCrash == Init /\ [][NextCrash]_vars

\* The watcher: monitor on the directory, started any number of times.
NextWatch ==
    \/ CreateFile
    \/ MonitorStart
    \/ OnCreated
    \/ DebounceDone
    \/ StopSignal
    \/ MonitorExit
    \/ LoadLedger
    \/ CreateLedgerOpen
    \/ CreateLedgerWrite
    \/ ProcessFile
    \/ FlushOpen
    \/ FlushDump
    \/ FlushClose

SpecWatch == Init /\ [][NextWatch]_vars

\* The watcher under a fair scheduler: the observer's dispatch thread, once
\* it can take a step (take an event, end its sleep, do the next step of
\* upload_all), eventually takes it.
HandlerFairness ==
    /\ WF_vars(OnCreated)
    /\ WF_vars(DebounceDone)
    /\ WF_vars(LoadLedger)
    /\ WF_vars(CreateLedgerOpen)
    /\ WF_vars(CreateLedgerWrite)
    /\ WF_vars(ProcessFile)
    /\ WF_vars(FlushOpen)
    /\ WF_vars(FlushDump)
    /\ WF_vars(FlushClose)

SpecWatchLive == Init /\ [][NextWatch]_vars /\ HandlerFairness

\* Every program started with --dryrun, from any ledger a run can have left.
DupFree(q) == \A j, k \in 1..Len(q) : q[j] = q[k] => j = k
Ledgers == {Absent} \cup
           {Written(q) : q \in UNION {Orderings(S) : S \in SUBSET PlainNames}}

InitDry ==
    /\ disk \in Ledgers
    /\ fs = [n \in Names |-> "absent"]
    /\ prog = "none"
    /\ pc = "idle"
    /\ preinitialize = FALSE
    /\ dryrun = FALSE
    /\ files = <<>>
    /\ i = 0
    /\ uploaded_files = <<>>
    /\ single_path = NoFile
    /\ handler_dryrun = FALSE
    /\ event_queue = 0
    /\ hpc = "off"
    /\ stop = FALSE
    /\ result = NoResult
    /\ last = NoOp
    /\ acked = {}
    /\ failed = NoFile
    /\ onlyConflict = TRUE
    /\ dirty = FALSE
    /\ runs = 0
    /\ marked = {}
    /\ records = <<>>
    /\ rec_i = 0
    /\ builder = <<>>
    /\ dt = "None"
    /\ modified_file = NotBuilt
    /\ files_to_edit = <<>>
    /\ edit_i = 0

CliUploadAllDry == CliUploadAllWith({TRUE})
SingleEditDry == SingleEditWith({TRUE})
MonitorStartDry == MonitorStartWith({TRUE})

NextDry ==
    \/ CreateFile
    \/ CliUploadAllDry
    \/ LoadLedger
    \/ CreateLedgerOpen
    \/ CreateLedgerWrite
    \/ ProcessFile
    \/ FlushOpen
    \/ SingleEditDry
    \/ SingleUpload
    \/ MonitorStartDry
    \/ OnCreated
    \/ StopSignal
    \/ MonitorExit

SpecDry == InitDry /\ [][NextDry]_vars


\* ---------------------------------------------------------------- edit-only
\* __main__, lines 586-588: neither --upload-all/--preinitialize nor --monitor;
\* the directory is globbed for *.fit, with no filter on the list.
EditDirStart ==
    \E dry \in BOOLEAN : \E listing \in Orderings(Listing(fs)) :
        /\ prog = "none"
        /\ runs < MaxRuns
        /\ runs' = runs + 1
        /\ dryrun' = dry
        /\ files_to_edit' = listing
        /\ edit_i' = 1
        /\ dirty' = FALSE
        /\ prog' = IF listing = <<>> THEN "none" ELSE "editdir"
        /\ UNCHANGED <<fs, disk, pc, preinitialize, files, i, uploaded_files,
                       single_path, watcher, result, last, hist>>
        /\ UNCHANGED editor

\* __main__, line 589 and the loop body after it (not in the source file):
\* each file of files_to_edit is edited in place of a single file, so the
\* output goes next to it (edit_fit, lines 210-211) unless dryrun.  A name
\* outside Names is written too, but not tracked.
EditDirFile ==
    /\ prog = "editdir"
    /\ LET f == files_to_edit[edit_i]
           out == edit_fit(fs[f])
           writes == WritesOutput(out, dryrun)
           tracked == writes /\ OutputOf(f) \in Names
       IN /\ fs' = IF tracked THEN [fs EXCEPT ![OutputOf(f)] = "ok"] ELSE fs
          /\ dirty' = (dirty \/ (tracked /\ fs[OutputOf(f)] = "absent"))
          /\ last' = [op |-> "edit_dir", file |-> f, dry |-> dryrun,
                      decoded |-> TRUE, encoded |-> writes,
                      called |-> FALSE, invoked |-> FALSE, resp |-> "none"]
    /\ edit_i' = edit_i + 1
    /\ prog' = IF edit_i < Len(files_to_edit) THEN "editdir" ELSE "none"
    /\ UNCHANGED <<disk, pc, frame, single_path, watcher, result, hist, runs,
                   files_to_edit>>
    /\ UNCHANGED editor

\* The edit-only program on the directory, started any number of times.
NextEdit ==
    \/ CreateFile
    \/ EditDirStart
    \/ EditDirFile

SpecEdit == Init /\ [][NextEdit]_vars

\* edit_fit on one decoded file, for every sequence of messages.
RecordLists == UNION {[1..n -> Messages] : n \in 0..MaxRecords}

InitRewrite ==
    /\ records \in RecordLists
    /\ rec_i = 1
    /\ builder = <<>>
    /\ dt = "None"
    /\ modified_file = NotBuilt
    /\ fs = [n \in Names |-> "absent"]
    /\ disk = Absent
    /\ prog = "none"
    /\ pc = "idle"
    /\ preinitialize = FALSE
    /\ dryrun = FALSE
    /\ files = <<>>
    /\ i = 0
    /\ uploaded_files = <<>>
    /\ single_path = NoFile
    /\ handler_dryrun = FALSE
    /\ event_queue = 0
    /\ hpc = "off"
    /\ stop = FALSE
    /\ result = NoResult
    /\ last = NoOp
    /\ acked = {}
    /\ failed = NoFile
    /\ onlyConflict = TRUE
    /\ marked = {}
    /\ dirty = FALSE
    /\ runs = 0
    /\ files_to_edit = <<>>
    /\ edit_i = 0

uploader == <<fs, disk, prog, pc, frame, single_path, watcher, result, last,
              hist, dirty, runs>>

\* lines 216-246: one iteration of the loop over fit_file.records.
EditRecord ==
    /\ rec_i \in 1..Len(records)
    /\ LET message == records[rec_i]
       IN /\ dt' = IF message.kind = "FileIdMessage" THEN "set" ELSE dt
          /\ builder' = Add(builder, Rewrite(message))
    /\ rec_i' = rec_i + 1
    /\ UNCHANGED <<records, modified_file, uploader, editdir>>

\* line 248: modified_file = builder.build(), after the last record.
EditBuild ==
    /\ rec_i = Len(records) + 1
    /\ ~modified_file.built
    /\ modified_file' = [built |-> TRUE, records |-> builder]
    /\ UNCHANGED <<records, rec_i, builder, dt, uploader, editdir>>

NextRewrite ==
    \/ EditRecord
    \/ EditBuild

SpecRewrite == InitRewrite /\ [][NextRewrite]_vars

\* ------------------------------------------------------------------ claims
\* a step of the for loop of upload_all (one candidate processed)
ProcessStep == pc = "loop" /\ last' # last /\ last'.op = "upload_all"

\* the step of upload_all that globs and filters the directory
ScanStep == pc \in {"load", "create"} /\ pc' \in {"loop", "idle"}

\* no invocation of upload_all is in progress and no program runs
Quiet == pc = "idle" /\ prog = "none"

\* C1: a step of upload_all invokes the client's upload for a file only if no
\* earlier upload of that file (in upload_all) returned success or conflict.
C1_AtMostOnce == [][ProcessStep /\ last'.invoked => last'.file \notin acked]_vars

\* C2: once a candidate's upload has ended in a hard error, the invocation
\* still ends by returning, with every candidate processed and, unless
\* dryrun, the in-memory list flushed to the on-disk ledger.
C2_HardErrorKeepsBatch ==
    (Quiet /\ failed # NoFile) =>
        /\ result.kind = "returned"
        /\ i = Len(files) + 1
        /\ ShouldFlush(result.dry) =>
              result.flushed /\ Range(uploaded_files) \subseteq Range(disk.paths)

\* C3: a file whose upload ended in a hard error is not in the on-disk
\* ledger; the next scan of upload_all lists it as a candidate; and when the
\* loop of a processing (not preinitialize) invocation reaches it, upload()
\* is called for it again.
C3_FailedFileRetried ==
    [][ /\ failed' # NoFile => failed' \notin Range(disk'.paths)
        /\ (ScanStep /\ failed # NoFile) =>
              pc' = "loop" /\ failed \in Range(files')
        /\ (ProcessStep /\ files[i] = failed /\ ~preinitialize) => last'.called
      ]_vars

C3_Witness ==
    /\ pc = "loop"
    /\ ~preinitialize
    /\ result.kind = "raised"
    /\ failed # NoFile
    /\ files[i] = failed
    /\ failed \notin Range(disk.paths)

\* C4: a Conflict answer raises nothing and the file is recorded like an
\* uploaded one; an invocation in which every answer of the client was
\* Conflict returns, and unless dryrun every candidate is in the flushed
\* ledger.
C4_ConflictIsSuccess ==
    /\ (last.op = "upload_all" /\ last.resp = "conflict") =>
          /\ last.file \in Range(uploaded_files)
          /\ last.file \in acked
          /\ ~(pc = "idle" /\ result.kind = "raised")
    /\ (Quiet /\ onlyConflict /\ result.kind # "none") =>
          /\ result.kind = "returned"
          /\ (files # <<>> /\ ~result.dry) =>
                result.flushed /\ Range(files) \subseteq Range(disk.paths)

C4_Witness ==
    /\ Quiet
    /\ onlyConflict
    /\ result.flushed
    /\ Len(files) >= 2
    /\ last.resp = "conflict"
    /\ Range(files) \subseteq acked

\* the latest step of upload_all was a decode failure in edit_fit
DecodeFailed == last.op = "upload_all" /\ last.decoded /\ fs[last.file] = "bad"

\* C5: for a candidate whose decode fails nothing is encoded and upload() is
\* not called, no exception leaves upload_all, and a batch that returns has
\* processed every candidate: each decodable one was uploaded (unless
\* dryrun) and the ledger was flushed.
C5_DecodeFailureIsolated ==
    /\ DecodeFailed =>
          /\ ~last.encoded /\ ~last.called /\ ~last.invoked
          /\ ~(pc = "idle" /\ result.kind = "raised")
    /\ (Quiet /\ result.kind = "returned" /\ ~result.pre /\ ~result.dry
          /\ \E f \in Range(files) : fs[f] = "bad") =>
          /\ i = Len(files) + 1
          /\ result.flushed
          /\ \A f \in Range(files) : fs[f] = "ok" => f \in acked

C5_Witness ==
    /\ Quiet
    /\ result.kind = "returned"
    /\ result.flushed
    /\ ~result.pre
    /\ Len(files) = 2
    /\ fs[files[1]] = "bad"
    /\ fs[files[2]] = "ok"
    /\ last.file = files[2]
    /\ last.invoked

\* C6: while upload_all runs with dryrun set, no step changes the on-disk
\* ledger file, whatever its state (absent included) was before the call.
C6_DryRunLeavesLedger == [][(prog = "cli" /\ dryrun) => disk' = disk]_vars

\* C7: a per-file step made under dryrun never invokes the client's upload,
\* and a watcher built with dryrun never calls upload_all.
C7_DryRunNeverUploads ==
    /\ last.dry => ~last.invoked
    /\ (prog = "monitor" /\ handler_dryrun) =>
          pc = "idle" /\ hpc = "armed"

C7_Witness ==
    /\ last.op = "upload_all"
    /\ last.dry
    /\ last.called
    /\ ~last.invoked
    /\ disk.paths # <<>>

\* C8: no path appears twice in the in-memory list or in the on-disk ledger.
C8_LedgerUnique == DupFree(uploaded_files) /\ DupFree(disk.paths)

C8_Witness ==
    /\ Quiet
    /\ result.flushed
    /\ files # <<>>
    /\ Len(uploaded_files) > Len(files)
    /\ disk.paths = uploaded_files

\* json.load of the ledger file
Reload(d) == d.paths

\* C9: after a non-dryrun upload_all has returned, every file it recorded is
\* in the reloaded ledger; and a repeated upload_all on the unchanged
\* directory returns at once with no candidate, no per-file step, and the
\* ledger file untouched.
C9_DedupAcrossRuns ==
    [][ /\ (Quiet /\ result.kind = "returned" /\ ~result.dry)' =>
              (disk.complete /\ Range(uploaded_files) \subseteq Range(Reload(disk)))'
        /\ (ScanStep /\ result.kind = "returned" /\ ~result.dry /\ ~dirty) =>
              /\ files' = <<>>
              /\ pc' = "idle"
              /\ result'.kind = "returned"
              /\ last' = NoOp
              /\ disk' = disk
      ]_vars

C9_Witness ==
    /\ Quiet
    /\ runs = 2
    /\ result.kind = "returned"
    /\ ~result.dry
    /\ ~result.flushed
    /\ files = <<>>
    /\ ~dirty
    /\ Len(disk.paths) >= 2
    /\ Listing(fs) = Range(disk.paths)

\* C10: whenever no program runs, also after a kill at any step, the ledger
\* file is absent or holds a complete list, so that json.load succeeds.
C10_AtomicFlush == prog = "none" => (~disk.exists \/ disk.complete)

\* C11: an invocation of upload_all with preinitialize decodes, rewrites,
\* encodes and uploads nothing, records every candidate, always returns, and
\* (unless dryrun) leaves every activity file that the directory held at the
\* glob and that is not a modified output in the on-disk ledger.
C11_PreinitializeMarksOnly ==
    /\ (last.op = "upload_all" /\ preinitialize) =>
            /\ ~last.decoded /\ ~last.encoded /\ ~last.called /\ ~last.invoked
            /\ last.file \in Range(uploaded_files)
    /\ (pc \in {"flush", "dump"} /\ preinitialize) =>
            Range(files) \subseteq Range(uploaded_files)
    /\ (Quiet /\ result.kind # "none" /\ result.pre) =>
            /\ result.kind = "returned"
            /\ (~result.dry /\ ~dirty) =>
                   /\ disk.exists /\ disk.complete
                   /\ \A n \in Listing(fs) :
                          NotModified(n) => n \in Range(disk.paths)

C11_Witness ==
    /\ Quiet
    /\ result.kind = "returned"
    /\ result.pre
    /\ ~result.dry
    /\ result.flushed
    /\ ~dirty
    /\ last.op = "upload_all"
    /\ Len(files) >= 2
    /\ \E k \in 1..Len(files) : fs[files[k]] = "bad"
    /\ \E n \in Listing(fs) : ~NotModified(n)
    /\ Range(files) \subseteq Range(disk.paths)

\* the rule table of the attribution rewrite
FileIdRule(m) == m.kind = "FileIdMessage" /\ m.manufacturer = DEVELOPMENT
DeviceInfoRule(m) ==
    m.kind = "DeviceInfoMessage" /\ m.manufacturer \in {DEVELOPMENT, 0, WAHOO_FITNESS}

\* C12: the message added for a record differs from the record's message
\* exactly when it is a FileId with manufacturer DEVELOPMENT (manufacturer
\* becomes Garmin, product Edge 830) or a DeviceInfo with manufacturer
\* DEVELOPMENT, 0 or WAHOO_FITNESS (manufacturer becomes Garmin, product and
\* garmin_product Edge 830); every other field and message is unchanged.
C12_RuleTable ==
    \A k \in 1..Len(builder) :
        LET m == records[k]
            o == builder[k]
        IN /\ (o # m) <=> (FileIdRule(m) \/ DeviceInfoRule(m))
           /\ FileIdRule(m) =>
                 o = [m EXCEPT !.manufacturer = GARMIN, !.product = EDGE_830]
           /\ DeviceInfoRule(m) =>
                 o = [m EXCEPT !.manufacturer = GARMIN, !.product = EDGE_830,
                               !.garmin_product = EDGE_830]

C12_Witness ==
    /\ modified_file.built
    /\ \E j, k \in 1..Len(records) :
          /\ FileIdRule(records[j])
          /\ records[j].garmin_product = 0
          /\ DeviceInfoRule(records[k])
          /\ records[k].manufacturer = WAHOO_FITNESS
          /\ modified_file.records[j].manufacturer = GARMIN
          /\ modified_file.records[j].garmin_product = 0
          /\ modified_file.records[k].garmin_product = EDGE_830

\* C13: a message whose manufacturer is already Garmin is added unchanged,
\* and rewriting an added message again gives the same message.
C13_Idempotent ==
    \A k \in 1..Len(builder) :
        /\ records[k].manufacturer = GARMIN => builder[k] = records[k]
        /\ Rewrite(builder[k]) = builder[k]

C13_Witness ==
    /\ modified_file.built
    /\ \E j, k \in 1..Len(records) :
          /\ records[j].kind = "DeviceInfoMessage"
          /\ records[j].manufacturer = GARMIN
          /\ records[j].product = 0
          /\ builder[j] = records[j]
          /\ builder[k] # records[k]
          /\ Rewrite(builder[k]) = builder[k]

\* C14: the messages handed to the encoder are as many as the records
\* decoded, and the message at each position has the kind of its record.
C14_NoMessageLoss ==
    /\ rec_i >= 1 => Len(builder) = rec_i - 1
    /\ \A k \in 1..Len(builder) :
          k <= Len(records) /\ builder[k].kind = records[k].kind
    /\ modified_file.built =>
          /\ Len(modified_file.records) = Len(records)
          /\ \A k \in 1..Len(records) :
                modified_file.records[k].kind = records[k].kind

C14_Witness ==
    /\ modified_file.built
    /\ Len(modified_file.records) >= 2
    /\ \E j, k \in 1..Len(records) :
          /\ DeviceInfoRule(records[j])
          /\ modified_file.records[j] # records[j]
          /\ records[k].kind = "RecordMessage"

\* C15: in watch mode the dispatch thread takes an event from the queue only
\* while no invocation of upload_all is in progress; an invocation is in
\* progress exactly while the thread is inside on_created after the sleep;
\* the invocation after which the thread is armed again has returned, with
\* its list flushed whole when it had candidates; and the ledger file is
\* written only by that one invocation.
C15_Serialized ==
    [][(prog = "monitor" /\ prog' = "monitor") =>
         /\ event_queue' < event_queue => (pc = "idle" /\ hpc = "armed")
         /\ (pc' # "idle") <=> (hpc' = "triggered")
         /\ (pc = "idle" /\ pc' # "idle") => hpc = "debouncing"
         /\ (pc # "idle" /\ pc' = "idle" /\ hpc' = "armed") =>
               /\ result'.kind = "returned"
               /\ files' # <<>> => (result'.flushed /\ disk' = Written(uploaded_files'))
         /\ disk' # disk => (hpc = "triggered" /\ hpc' \in {"triggered", "armed"})
      ]_vars

C15_Witness ==
    /\ prog = "monitor"
    /\ hpc = "triggered"
    /\ pc = "dump"
    /\ event_queue >= 1
    /\ Len(uploaded_files) >= 2
    /\ Len(disk.paths) = 1

\* C16: once monitor has received the stop signal, no invocation of
\* upload_all begins (also not for an event whose sleep was in flight) and
\* no step of upload_all calls upload().
C16_NoUploadAfterStop ==
    [][(prog = "monitor" /\ stop) =>
         /\ ~(pc = "idle" /\ pc' = "load")
         /\ ~(ProcessStep /\ last'.called)
      ]_vars

\* C17: while a monitor started with dryrun runs, every event taken from the
\* queue leaves the dispatch thread armed, upload_all is never entered, no
\* step decodes, encodes or uploads a file, and the ledger file is neither
\* created nor modified.
C17_WatchDryRun ==
    [][(prog = "monitor" /\ handler_dryrun) =>
         /\ disk' = disk
         /\ pc' = "idle"
         /\ hpc' \in {"armed", "off"}
         /\ event_queue' < event_queue /\ prog' = "monitor" => hpc' = "armed"
         /\ last' # last =>
               /\ last'.op = "on_created"
               /\ ~last'.decoded /\ ~last'.encoded
               /\ ~last'.called /\ ~last'.invoked
      ]_vars

C17_Witness ==
    /\ prog = "monitor"
    /\ handler_dryrun
    /\ last.op = "on_created"
    /\ last.dry
    /\ hpc = "armed"
    /\ event_queue >= 1
    /\ ~disk.exists
    /\ \E n \in Listing(fs) : NotModified(n) /\ fs[n] = "ok"

\* C18: in every directory mode, no file with the modified-output suffix and
\* no file already in the ledger is in the list of files to process, and
\* none is decoded.
C18_CandidateSelection ==
    /\ \A k \in 1..Len(files) :
          NotModified(files[k]) /\ (pc = "loop" => files[k] \notin Range(disk.paths))
    /\ \A k \in 1..Len(files_to_edit) :
          NotModified(files_to_edit[k]) /\ files_to_edit[k] \notin Range(disk.paths)
    /\ last.op \in {"upload_all", "edit_dir"} => NotModified(last.file)

\* C19: every path in the on-disk ledger is a file whose upload returned
\* success or conflict, or one recorded by an invocation with preinitialize;
\* a file whose decode failed or that was not uploaded is not in it.
C19_LedgerMeaning == \A n \in Range(disk.paths) : n \in acked \cup marked

\* C20: a step of upload_all with dryrun writes no encoded file, not to the
\* temporary location either.
C20_DryRunNoEncode ==
    (last.op = "upload_all" /\ last.dry) => ~last.encoded

C22_WatcherStateMachine ==
    [][/\ (prog # "monitor" /\ prog' = "monitor") => hpc' = "armed"
       /\ (prog = "monitor" /\ hpc' # hpc) =>
             \/ hpc = "armed" /\ hpc' = "debouncing"
             \/ hpc = "debouncing" /\ hpc' = "triggered"
             \/ hpc = "triggered" /\ hpc' = "armed"
             \/ hpc = "armed" /\ hpc' = "off" /\ stop
      ]_vars

\* C23: if monitor never receives the stop signal and neither the decode nor
\* the upload of file n fails, then from any state where a monitor without
\* dryrun runs, a creation event is queued and n is in the directory, n is
\* eventually uploaded and in the on-disk ledger.
C23_WatchLiveness ==
    \A n \in PlainNames :
        ([](failed # n) /\ [](~stop)) =>
            ((/\ prog = "monitor"
              /\ ~handler_dryrun
              /\ fs[n] = "ok"
              /\ event_queue >= 1)
             ~> (n \in acked /\ n \in Range(disk.paths)))

TypeOK ==
    /\ fs \in [Names -> {"absent", "ok", "bad"}]
    /\ pc \in {"idle", "load", "create", "loop", "flush", "dump", "single_upload"}
    /\ prog \in {"none", "cli", "single", "monitor", "editdir"}
    /\ hpc \in {"off", "armed", "debouncing", "triggered", "dead"}
====
